---- MODULE Spec2Model ----
(***************************************************************************)
(* Model of cli.py: the dependency lookup pipeline                         *)
(*   load_config -> validate_config -> get_packages_data ->                *)
(*   parse_dependencies -> report.                                         *)
(* Python strings are sequences of one-character strings, so that          *)
(* startswith, endswith, split and strip are computed on the characters.   *)
(***************************************************************************)
EXTENDS Integers, Sequences, FiniteSets, TLC

VARIABLES pc, config, errors, env, requests, packages_data_str,
          package_blocks, block_idx, package_info, dependencies,
          output, exit_code

vars == <<pc, config, errors, env, requests, packages_data_str,
          package_blocks, block_idx, package_info, dependencies,
          output, exit_code>>

(* ---------------------------- bounds ----------------------------------- *)

\* Largest number of records an index text of the environment is made of.
MaxRecords == 2

(* ------------------------ string literals ------------------------------ *)

Empty == << >>

HttpPrefix ==
    <<"h", "t", "t", "p", ":", "/", "/">>

HttpsPrefix ==
    <<"h", "t", "t", "p", "s", ":", "/", "/">>

GzSuffix ==
    <<".", "g", "z">>

PackagePrefix ==
    <<"P", "a", "c", "k", "a", "g", "e", ":", " ">>

DependsPrefix ==
    <<"D", "e", "p", "e", "n", "d", "s", ":", " ">>

ColonSpace ==
    <<":", " ">>

BlankLine ==
    <<"\n", "\n">>

LineBreak ==
    <<"\n">>

Comma ==
    <<",">>

DistsPart ==
    <<"/", "d", "i", "s", "t", "s", "/">>

Slash ==
    <<"/">>

BinaryPart ==
    <<"/", "b", "i", "n", "a", "r", "y", "-">>

PackagesGzPart ==
    <<"/", "P", "a", "c", "k", "a", "g", "e", "s", ".", "g", "z">>

\* The characters str.strip() removes.
Whitespace == {" ", "\t", "\n", "\r"}

(* ----------------------- Python str operations ------------------------- *)

\* s.startswith(p)
StartsWith(s, p) ==
    /\ Len(p) <= Len(s)
    /\ SubSeq(s, 1, Len(p)) = p

\* s.endswith(p)
EndsWith(s, p) ==
    /\ Len(p) <= Len(s)
    /\ SubSeq(s, Len(s) - Len(p) + 1, Len(s)) = p

\* s.find(sep) + 1: the position of the first occurrence of sep, 0 if none.
Find(s, sep) ==
    LET hits == {k \in 1..(Len(s) - Len(sep) + 1) :
                    SubSeq(s, k, k + Len(sep) - 1) = sep}
    IN  IF hits = {} THEN 0
        ELSE CHOOSE k \in hits : \A j \in hits : k <= j

RECURSIVE Split(_, _)
\* s.split(sep) for a non-empty sep: every piece is kept, empty ones too.
Split(s, sep) ==
    LET k == Find(s, sep)
    IN  IF k = 0 THEN <<s>>
        ELSE <<SubSeq(s, 1, k - 1)>>
             \o Split(SubSeq(s, k + Len(sep), Len(s)), sep)

\* s.split(sep, 1)
SplitOnce(s, sep) ==
    LET k == Find(s, sep)
    IN  IF k = 0 THEN <<s>>
        ELSE <<SubSeq(s, 1, k - 1), SubSeq(s, k + Len(sep), Len(s))>>

RECURSIVE LStrip(_)
LStrip(s) ==
    IF s # Empty /\ Head(s) \in Whitespace THEN LStrip(Tail(s)) ELSE s

RECURSIVE RStrip(_)
RStrip(s) ==
    IF s # Empty /\ s[Len(s)] \in Whitespace
    THEN RStrip(SubSeq(s, 1, Len(s) - 1)) ELSE s

\* s.strip()
Strip(s) == RStrip(LStrip(s))

(* ----------------------------- values ---------------------------------- *)

\* Python's None, and a value that is not None.
None == [isNone |-> TRUE, val |-> Empty]

Some(v) == [isNone |-> FALSE, val |-> v]

\* Python truthiness of an optional string or list: `not v`.
Falsy(v) == v.isNone \/ v.val = Empty

\* dict.get(key, default)
Get(d, key, default) == IF key \in DOMAIN d THEN d[key] ELSE default

\* dict.get(key) used as a condition: None and "" are both falsy.
Missing(d, key) == key \notin DOMAIN d \/ d[key] = Empty

\* d[key] = value
Put(d, key, value) ==
    [k \in (DOMAIN d) \cup {key} |-> IF k = key THEN value ELSE d[k]]

EmptyDict == [k \in {} |-> Empty]

(* ------------------------- configurations ------------------------------ *)

X ==
    <<"X">>

Y ==
    <<"Y">>

Z ==
    <<"Z">>

ExampleBase ==
    <<"h", "t", "t", "p", ":", "/", "/", "e", "x", "a", "m", "p", "l", "e", ".", "t", "e", "s", "t", "/", "r", "e", "p", "o">>

PathGz ==
    <<"p", ".", "g", "z">>

PathPlain ==
    <<"p">>

Stable ==
    <<"s", "t", "a", "b", "l", "e">>

Main ==
    <<"m", "a", "i", "n">>

Amd64 ==
    <<"a", "m", "d", "6", "4">>

\* A TOML value of a type other than string, where a string is expected.
NotAString == [type |-> "int", val |-> Empty]

IsStr(v) == v.type = "str"

\* Keys a configuration file may or may not carry.  The three keys of the
\* remote mode are drawn only for remote configurations; max_depth is an
\* integer whenever present.
OptionalValues ==
    [distribution |-> Stable, component |-> Main, architecture |-> Amd64,
     max_depth |-> 21, filter_substring |-> NotAString]

Restrict(f, D) == [k \in D |-> f[k]]

\* The contents config.toml may have.
ConfigFiles ==
    LET names == {Empty, X, Y, Z}
        remote ==
            { [package_name |-> n, working_mode |-> "remote",
               repository_url |-> u] @@ Restrict(OptionalValues, K) :
                 n \in names, u \in {Empty, ExampleBase, PathPlain},
                 K \in SUBSET {"distribution", "component", "architecture",
                               "max_depth", "filter_substring"} }
        paths(m) == IF m = "test" THEN {PathPlain} ELSE {PathGz}
        other(m) ==
            { [package_name |-> n, working_mode |-> m,
               repository_url |-> u] @@ Restrict(OptionalValues, K) :
                 n \in names, u \in {Empty, ExampleBase} \cup paths(m),
                 K \in SUBSET {"max_depth", "filter_substring"} }
    IN  remote \cup other("local") \cup other("test") \cup other("unknown")

(* --------------------------- validate_config --------------------------- *)

IsHttpUrl(s) == StartsWith(s, HttpPrefix) \/ StartsWith(s, HttpsPrefix)

ValidModes == {"local", "remote", "test"}

\* errors.append(tag) under a condition
Err(cond, tag) == IF cond THEN <<tag>> ELSE << >>

validate_config(cfg) ==
    LET mode     == Get(cfg, "working_mode", "None")
        repo_url == Get(cfg, "repository_url", Empty)
        depth    == Get(cfg, "max_depth", 1)
        filter   == Get(cfg, "filter_substring", [type |-> "str", val |-> Empty])
    IN  Err(Missing(cfg, "package_name"), "package_name")
        \o Err(mode \notin ValidModes, "working_mode")
        \o Err(repo_url = Empty, "repository_url")
        \o (IF mode = "remote"
            THEN Err(~IsHttpUrl(repo_url), "remote_url")
                 \o Err(Missing(cfg, "distribution"), "distribution")
                 \o Err(Missing(cfg, "component"), "component")
                 \o Err(Missing(cfg, "architecture"), "architecture")
            ELSE IF mode = "local"
            THEN Err(IsHttpUrl(repo_url), "local_url")
            ELSE << >>)
        \o Err(depth < 1 \/ depth > 20, "max_depth")
        \o Err(~IsStr(filter), "filter_substring")

(* -------------------------- get_packages_data -------------------------- *)

\* A faulty variant of FullUrl: the architecture directory without its binary- prefix.
FullUrl_NoBinaryPrefix(cfg) ==
    cfg.repository_url \o DistsPart \o cfg.distribution \o Slash
    \o cfg.component \o Slash \o cfg.architecture \o PackagesGzPart

\* The location the remote mode downloads from.
FullUrl(cfg) ==
    cfg.repository_url \o DistsPart \o cfg.distribution \o Slash
    \o cfg.component \o BinaryPart \o cfg.architecture \o PackagesGzPart

\* urlopen + GzipFile.read + decode: what the call raises, or its value.
FetchRemote(e) ==
    IF e.status = "http_error" THEN [raised |-> "HTTPError", value |-> Empty]
    ELSE IF e.status = "unreachable" THEN [raised |-> "URLError", value |-> Empty]
    ELSE IF e.status = "corrupt" THEN [raised |-> "Exception", value |-> Empty]
    ELSE [raised |-> "none", value |-> e.text]

\* A faulty variant of ReadLocal: a missing file is swallowed and read as empty text.
ReadLocal_Swallow(e) ==
    IF e.status = "corrupt" THEN [raised |-> "Exception", value |-> Empty]
    ELSE [raised |-> "none", value |-> e.text]

\* gzip.open / open + read: what the call raises, or its value.
ReadLocal(e) ==
    IF e.status = "missing" THEN [raised |-> "FileNotFoundError", value |-> Empty]
    ELSE IF e.status = "corrupt" THEN [raised |-> "Exception", value |-> Empty]
    ELSE [raised |-> "none", value |-> e.text]

\* The message of the except clause that catches the exception.
ExceptHandler(raised) ==
    IF raised = "HTTPError" THEN "http_error"
    ELSE IF raised = "URLError" THEN "url_error"
    ELSE IF raised = "FileNotFoundError" THEN "file_not_found"
    ELSE "unknown_error"

\* The one I/O call of get_packages_data.
Request(cfg) ==
    IF cfg.working_mode = "remote"
    THEN [call |-> "urlopen", location |-> FullUrl(cfg)]
    ELSE IF EndsWith(cfg.repository_url, GzSuffix)
    THEN [call |-> "gzip.open", location |-> cfg.repository_url]
    ELSE [call |-> "open", location |-> cfg.repository_url]

(* ---------------------------- index texts ----------------------------- *)

L_PackageX ==
    <<"P", "a", "c", "k", "a", "g", "e", ":", " ", "X">>

L_PackageY ==
    <<"P", "a", "c", "k", "a", "g", "e", ":", " ", "Y">>

L_PackageLowerX ==
    <<"P", "a", "c", "k", "a", "g", "e", ":", " ", "x">>

L_PackageXPadded ==
    <<"P", "a", "c", "k", "a", "g", "e", ":", " ", " ", "X", " ">>

L_PackageNoSpace ==
    <<"P", "a", "c", "k", "a", "g", "e", ":", "X">>

L_PackageIndented ==
    <<" ", "P", "a", "c", "k", "a", "g", "e", ":", " ", "X">>

L_Version ==
    <<"V", "e", "r", "s", "i", "o", "n", ":", " ", "1">>

L_DependsABC ==
    <<"D", "e", "p", "e", "n", "d", "s", ":", " ", "a", ",", " ", "b", ",", " ", "c">>

L_DependsTrailingComma ==
    <<"D", "e", "p", "e", "n", "d", "s", ":", " ", "a", ",", " ", "b", ",">>

L_DependsA ==
    <<"D", "e", "p", "e", "n", "d", "s", ":", " ", "a">>

L_DependsEmpty ==
    <<"D", "e", "p", "e", "n", "d", "s", ":", " ">>

L_DependsAlt ==
    <<"D", "e", "p", "e", "n", "d", "s", ":", " ", "a", "|", "b", ",", ",", "c">>

\* The records (each a sequence of non-empty lines) index texts are made of.
Stanzas ==
    { <<L_PackageX, L_DependsABC>>,
      <<L_PackageY>>,
      <<L_PackageX, L_DependsTrailingComma>>,
      <<L_PackageLowerX, L_DependsA>>,
      <<L_Version, L_PackageXPadded, L_DependsAlt>>,
      <<L_PackageNoSpace, L_PackageIndented, L_DependsA>>,
      <<L_PackageY, L_PackageX, L_DependsEmpty>> }

RECURSIVE Join(_, _)
\* sep.join(parts)
Join(parts, sep) ==
    IF parts = << >> THEN Empty
    ELSE IF Len(parts) = 1 THEN parts[1]
    ELSE parts[1] \o sep \o Join(Tail(parts), sep)

\* The text of an index file: its records, each a block of lines, separated
\* by one blank line, after lead and before trail.
IndexText(records, lead, trail) ==
    lead
    \o Join([r \in 1..Len(records) |-> Join(records[r], LineBreak)], BlankLine)
    \o trail

\* What the file system or the network can answer to the one request.
Environments(mode) ==
    LET failures == IF mode = "remote"
                    THEN {"http_error", "unreachable", "corrupt"}
                    ELSE {"missing", "corrupt"}
        recordSeqs == UNION {[1..n -> Stanzas] : n \in 0..MaxRecords}
        trails(rs) == IF rs = << >> THEN {Empty, BlankLine}
                      ELSE {Empty, LineBreak, BlankLine}
    IN  { [status |-> f, records |-> << >>, text |-> Empty] : f \in failures }
        \cup
        { [status |-> "ok", records |-> rs.r, text |-> IndexText(rs.r, rs.l, rs.t)] :
            rs \in { [r |-> r, l |-> l, t |-> t] :
                       r \in recordSeqs, l \in {Empty, BlankLine},
                       t \in {Empty, LineBreak, BlankLine} } \ 
                  { [r |-> << >>, l |-> l, t |-> LineBreak] : l \in {Empty, BlankLine} } }

\* Nothing was requested yet.
NoEnv == [status |-> "unread", records |-> << >>, text |-> Empty]

(* ------------------------- parse_dependencies -------------------------- *)

\* A faulty variant of SplitBlocks: the text is cut at every line break.
SplitBlocks_OnLineBreak(packages_data) == Split(packages_data, LineBreak)

\* packages_data.split('\n\n')
SplitBlocks(packages_data) == Split(packages_data, BlankLine)

\* A faulty variant of FieldValue: the value is taken without strip().
FieldValue_NoStrip(line) == SplitOnce(line, ColonSpace)[2]

\* line.split(': ', 1)[1].strip()
FieldValue(line) == Strip(SplitOnce(line, ColonSpace)[2])

\* The body of `for line in lines`.
ParseLine(line, info) ==
    IF StartsWith(line, PackagePrefix)
    THEN Put(info, "Package", FieldValue(line))
    ELSE IF StartsWith(line, DependsPrefix)
    THEN Put(info, "Depends", FieldValue(line))
    ELSE info

RECURSIVE ParseLines(_, _)
ParseLines(lines, info) ==
    IF lines = << >> THEN info
    ELSE ParseLines(Tail(lines), ParseLine(Head(lines), info))

\* package_info of one block
ParseBlock(block) == ParseLines(Split(block, LineBreak), EmptyDict)

\* package_info.get('Package') == target_package
IsMatch(info, target) ==
    /\ "Package" \in DOMAIN info
    /\ info["Package"] = target

\* A faulty variant of SplitDepends: the comprehension filters out empty tokens.
SplitDepends_DropEmpty(deps_string) ==
    SelectSeq(Split(deps_string, Comma), LAMBDA t : t # Empty)

\* deps_string.split(','), copied by the list comprehension
SplitDepends(deps_string) == Split(deps_string, Comma)

\* A faulty variant of DependencyList: a blank Depends value is treated as no field.
DependencyList_BlankIsEmpty(info) ==
    IF "Depends" \notin DOMAIN info \/ info["Depends"] = Empty THEN << >>
    ELSE Split(info["Depends"], Comma)

\* The value returned for the matching block.
DependencyList(info) ==
    IF "Depends" \notin DOMAIN info THEN << >>
    ELSE SplitDepends(info["Depends"])

(* ------------------------------ actions -------------------------------- *)

Init ==
    /\ pc = "load_config"
    /\ config = EmptyDict
    /\ errors = << >>
    /\ env = NoEnv
    /\ requests = << >>
    /\ packages_data_str = None
    /\ package_blocks = << >>
    /\ block_idx = 0
    /\ package_info = EmptyDict
    /\ dependencies = None
    /\ output = << >>
    /\ exit_code = -1

\* sys.exit(1) after printing msgs
Exit1(msgs) ==
    /\ output' = output \o msgs
    /\ exit_code' = 1
    /\ pc' = "exited"

\* main, line 159: config.toml is read, or is missing or malformed.
load_config ==
    /\ pc = "load_config"
    /\ \/ /\ \E cfg \in ConfigFiles : config' = cfg
          /\ pc' = "validate_config"
          /\ UNCHANGED <<output, exit_code>>
       \/ /\ Exit1(<<"config_load_error">>)
          /\ UNCHANGED config
    /\ UNCHANGED <<errors, env, requests, packages_data_str, package_blocks,
                   block_idx, package_info, dependencies>>

\* main, lines 162-167
validate ==
    /\ pc = "validate_config"
    /\ errors' = validate_config(config)
    /\ IF errors' # << >>
       THEN Exit1(<<"config_errors">>)
       ELSE /\ pc' = "get_packages_data"
            /\ UNCHANGED <<output, exit_code>>
    /\ UNCHANGED <<config, env, requests, packages_data_str, package_blocks,
                   block_idx, package_info, dependencies>>

\* main, line 170: the whole of get_packages_data
get_packages_data ==
    /\ pc = "get_packages_data"
    /\ \E e \in Environments(config.working_mode) :
         LET remote == config.working_mode = "remote"
             banner == <<"mode", IF remote THEN "download_from" ELSE "read_local">>
             r      == IF remote THEN FetchRemote(e) ELSE ReadLocal(e)
         IN  /\ env' = e
             /\ requests' = Append(requests, Request(config))
             /\ IF r.raised = "none"
                THEN /\ packages_data_str' = Some(r.value)
                     /\ output' = output \o banner
                     /\ pc' = "check_data"
                     /\ UNCHANGED exit_code
                ELSE /\ Exit1(banner \o <<ExceptHandler(r.raised)>>)
                     /\ UNCHANGED packages_data_str
    /\ UNCHANGED <<config, errors, package_blocks, block_idx, package_info,
                   dependencies>>

\* main, lines 172-174
check_data ==
    /\ pc = "check_data"
    /\ IF Falsy(packages_data_str)
       THEN Exit1(<<"no_data">>)
       ELSE /\ pc' = "parse_dependencies"
            /\ UNCHANGED <<output, exit_code>>
    /\ UNCHANGED <<config, errors, env, requests, packages_data_str,
                   package_blocks, block_idx, package_info, dependencies>>

\* parse_dependencies, lines 125-128
split_blocks ==
    /\ pc = "parse_dependencies"
    /\ output' = Append(output, "searching")
    /\ package_blocks' = SplitBlocks(packages_data_str.val)
    /\ block_idx' = 1
    /\ pc' = "for_block"
    /\ UNCHANGED <<config, errors, env, requests, packages_data_str,
                   package_info, dependencies, exit_code>>

\* A faulty variant of for_block: the match is recorded without returning, so the
\* scan goes on and the last matching block wins.
for_block_LastWins ==
    /\ pc = "for_block"
    /\ IF block_idx > Len(package_blocks)
       THEN /\ pc' = "report"
            /\ UNCHANGED <<block_idx, package_info, dependencies>>
       ELSE LET info == ParseBlock(package_blocks[block_idx])
            IN  /\ package_info' = info
                /\ dependencies' = IF IsMatch(info, config.package_name)
                                   THEN Some(DependencyList(info))
                                   ELSE dependencies
                /\ block_idx' = block_idx + 1
                /\ UNCHANGED pc
    /\ UNCHANGED <<config, errors, env, requests, packages_data_str,
                   package_blocks, output, exit_code>>

\* parse_dependencies, lines 130-153: one turn of `for block`, or its end
for_block ==
    /\ pc = "for_block"
    /\ IF block_idx > Len(package_blocks)
       THEN /\ dependencies' = None
            /\ pc' = "report"
            /\ UNCHANGED <<block_idx, package_info>>
       ELSE LET info == ParseBlock(package_blocks[block_idx])
            IN  /\ package_info' = info
                /\ IF IsMatch(info, config.package_name)
                   THEN /\ dependencies' = Some(DependencyList(info))
                        /\ pc' = "report"
                        /\ UNCHANGED block_idx
                   ELSE /\ block_idx' = block_idx + 1
                        /\ UNCHANGED <<dependencies, pc>>
    /\ UNCHANGED <<config, errors, env, requests, packages_data_str,
                   package_blocks, output, exit_code>>

\* main, lines 181-188
report ==
    /\ pc = "report"
    /\ output' = Append(output,
                        IF dependencies.isNone THEN "not_found"
                        ELSE IF dependencies.val = << >> THEN "no_deps"
                        ELSE "deps")
    /\ exit_code' = 0
    /\ pc' = "exited"
    /\ UNCHANGED <<config, errors, env, requests, packages_data_str,
                   package_blocks, block_idx, package_info, dependencies>>

Next ==
    \/ load_config
    \/ validate
    \/ get_packages_data
    \/ check_data
    \/ split_blocks
    \/ for_block
    \/ report

Spec == Init /\ [][Next]_vars

\* The message the run ended with.
Outcome == IF output = << >> THEN "none" ELSE output[Len(output)]

TypeOK ==
    /\ pc \in {"load_config", "validate_config", "get_packages_data",
               "check_data", "parse_dependencies", "for_block", "report",
               "exited"}
    /\ exit_code \in {-1, 0, 1}
    /\ Len(requests) <= 1

(* ------------------------- verified properties ------------------------- *)

\* validate_config found no error and main went on.
ValidatedOk ==
    /\ pc \notin {"load_config", "validate_config"}
    /\ "working_mode" \in DOMAIN config
    /\ errors = << >>

\* get_packages_data was called and has ended.
Acquired == ValidatedOk /\ pc # "get_packages_data"

\* parse_dependencies has split the text.
ParseStarted ==
    \/ pc \in {"for_block", "report"}
    \/ pc = "exited" /\ exit_code = 0

\* parse_dependencies has returned.
Returned ==
    \/ pc = "report"
    \/ pc = "exited" /\ exit_code = 0

\* The positions of the blocks whose Package value is the target.
MatchesIn(blocks, target) ==
    {j \in 1..Len(blocks) : IsMatch(ParseBlock(blocks[j]), target)}

\* The same for the blocks of a text.
Matches(text, target) == MatchesIn(Split(text, BlankLine), target)

Min(S) == CHOOSE k \in S : \A j \in S : k <= j

ExampleIndex ==
    <<"P", "a", "c", "k", "a", "g", "e", ":", " ", "X", "\n", "D", "e", "p", "e", "n", "d", "s", ":", " ", "a", ",", " ", "b", ",", " ", "c", "\n", "\n", "P", "a", "c", "k", "a", "g", "e", ":", " ", "Y", "\n">>

ExampleUrl ==
    <<"h", "t", "t", "p", ":", "/", "/", "e", "x", "a", "m", "p", "l", "e", ".", "t", "e", "s", "t", "/", "r", "e", "p", "o", "/", "d", "i", "s", "t", "s", "/", "s", "t", "a", "b", "l", "e", "/", "m", "a", "i", "n", "/", "b", "i", "n", "a", "r", "y", "-", "a", "m", "d", "6", "4", "/", "P", "a", "c", "k", "a", "g", "e", "s", ".", "g", "z">>

\* C1: parse_dependencies returns None exactly when no record's Package
\* value is the target, the empty list exactly when the first matching
\* record has no Depends field and a non-empty list exactly when it has one;
\* main reports the three results with three different messages.
C1_ThreeOutcomes ==
    (pc = "exited" /\ exit_code = 0) =>
        LET blocks  == Split(env.text, BlankLine)
            matches == MatchesIn(blocks, config.package_name)
            hasDeps == "Depends" \in DOMAIN ParseBlock(blocks[Min(matches)])
        IN  /\ dependencies.isNone <=> matches = {}
            /\ matches # {} =>
                  /\ (dependencies.val = << >>) <=> ~hasDeps
                  /\ (dependencies.val # << >>) <=> hasDeps
            /\ Outcome = "not_found" <=> matches = {}
            /\ Outcome = "no_deps" <=> (matches # {} /\ ~hasDeps)
            /\ Outcome = "deps" <=> (matches # {} /\ hasDeps)

\* C1 witness: a found package whose Depends field is blank is reported
\* with the one-entry list holding the empty string.
C1_Witness ==
    /\ pc = "exited"
    /\ Outcome = "deps"
    /\ dependencies = Some(<<Empty>>)

\* C2: every returned entry is stripped of surrounding whitespace, and the
\* example index yields ["a","b","c"] for X, the empty list for Y and
\* not-found for Z.
C2_StrippedEntries ==
    Returned =>
        /\ \A k \in 1..Len(dependencies.val) :
              dependencies.val[k] = Strip(dependencies.val[k])
        /\ env.text = ExampleIndex =>
              /\ config.package_name = X =>
                    dependencies = Some(<< <<"a">>, <<"b">>, <<"c">> >>)
              /\ config.package_name = Y => dependencies = Some(<< >>)
              /\ config.package_name = Z => dependencies = None

CountCommas(s) == Cardinality({k \in 1..Len(s) : s[k] = ","})

\* The text after the prefix on the last line of the block that starts with
\* the prefix; the block has such a line.
RawField(block, prefix) ==
    LET lines == Split(block, LineBreak)
        at    == {j \in 1..Len(lines) : StartsWith(lines[j], prefix)}
        last  == CHOOSE j \in at : \A k \in at : k <= j
    IN  SubSeq(lines[last], Len(prefix) + 1, Len(lines[last]))

HasField(block, prefix) ==
    LET lines == Split(block, LineBreak)
    IN  \E j \in 1..Len(lines) : StartsWith(lines[j], prefix)

\* C3: a Depends value with k commas yields k+1 entries in source order, no
\* token is dropped, and a value ending in a comma yields a last entry that
\* is the empty string.
C3_NoTokenDropped ==
    (pc = "report" /\ ~dependencies.isNone
       /\ HasField(package_blocks[block_idx], DependsPrefix)) =>
        LET raw == RawField(package_blocks[block_idx], DependsPrefix)
            val == dependencies.val
        IN  /\ Len(val) = CountCommas(raw) + 1
            /\ Join(val, Comma) = Strip(raw)
            /\ EndsWith(raw, Comma) => val[Len(val)] = Empty

\* C3 witness: the value "a, b," was split into three entries.
C3_Witness ==
    /\ Returned
    /\ ~dependencies.isNone
    /\ Len(dependencies.val) = 3
    /\ dependencies.val[1] = <<"a">>
    /\ dependencies.val[3] = Empty

\* C4: with several records named as the target the result is the one of
\* the earliest, the scan stops there and never passes a matching record.
C4_EarliestWins ==
    pc = "report" =>
        LET blocks  == Split(env.text, BlankLine)
            matches == MatchesIn(blocks, config.package_name)
        IN  /\ \A j \in matches : block_idx <= j
            /\ matches # {} =>
                  /\ block_idx = Min(matches)
                  /\ dependencies =
                        Some(DependencyList(ParseBlock(blocks[Min(matches)])))

\* C4 witness: two records carry the target's name with different Depends
\* values and the lookup has returned.
C4_Witness ==
    /\ pc = "exited"
    /\ exit_code = 0
    /\ LET blocks  == Split(env.text, BlankLine)
           matches == MatchesIn(blocks, config.package_name)
       IN  /\ Cardinality(matches) = 2
           /\ \E j \in matches, k \in matches :
                 DependencyList(ParseBlock(blocks[j]))
                    # DependencyList(ParseBlock(blocks[k]))

\* C5: the run ends with the could-not-retrieve message only when the
\* acquisition failed; an index that was read, the empty one included, and
\* does not hold the target ends with the not-found message.
C5_RetrievalFailureOnlyWhenFailed ==
    (Acquired /\ pc = "exited") =>
        /\ Outcome \in {"no_data", "http_error", "url_error",
                        "file_not_found", "unknown_error"}
              => env.status # "ok"
        /\ (env.status = "ok" /\ Matches(env.text, config.package_name) = {})
              => Outcome = "not_found"

\* C6: in local or test mode a missing path ends the run in failure: no
\* index text is returned, the file is opened once and nothing else is
\* requested, and parse_dependencies does not run.
C6_MissingFileIsTerminal ==
    env.status = "missing" =>
        /\ pc = "exited"
        /\ exit_code = 1
        /\ Outcome = "file_not_found"
        /\ packages_data_str = None
        /\ Len(requests) = 1
        /\ requests[1].location = config.repository_url
        /\ requests[1].call \in {"open", "gzip.open"}
        /\ \A k \in 1..Len(output) : output[k] # "searching"
        /\ package_blocks = << >>
        /\ dependencies = None

\* C6 witness: test mode, the path does not exist, the run has ended.
C6_Witness ==
    /\ env.status = "missing"
    /\ config.working_mode = "test"
    /\ config.repository_url = PathPlain
    /\ pc = "exited"

\* C7: a validated remote configuration requests exactly one location, the
\* base joined with dists/{distribution}/{component}/binary-{architecture}/
\* Packages.gz; for the example configuration it is the example URL.
C7_RemoteLocation ==
    (Acquired /\ config.working_mode = "remote") =>
        /\ Len(requests) = 1
        /\ requests[1].call = "urlopen"
        /\ StartsWith(requests[1].location, config.repository_url \o Slash)
        /\ (/\ config.repository_url = ExampleBase
            /\ config.distribution = Stable
            /\ config.component = Main
            /\ config.architecture = Amd64)
              => requests[1].location = ExampleUrl

\* C7 witness: the example configuration has downloaded its index.
C7_Witness ==
    /\ Acquired
    /\ config.working_mode = "remote"
    /\ config.repository_url = ExampleBase
    /\ env.status = "ok"
    /\ requests # << >>

\* C8: a text of N non-empty records separated by blank lines is split into
\* N non-empty blocks, empty blocks arise only at the two ends, and when the
\* target is absent every block was inspected before not-found is returned.
C8_RecordCount ==
    ParseStarted =>
        LET nonEmpty == {j \in 1..Len(package_blocks) : package_blocks[j] # Empty}
        IN  /\ Cardinality(nonEmpty) = Len(env.records)
            /\ \A j \in nonEmpty, k \in nonEmpty :
                  \A m \in j..k : m \in nonEmpty
            /\ (Returned /\ dependencies.isNone) =>
                  block_idx = Len(package_blocks) + 1

\* C8 witness: two records after a leading separator, target absent.
C8_Witness ==
    /\ Returned
    /\ dependencies.isNone
    /\ Len(env.records) = 2
    /\ Len(package_blocks) >= 3
    /\ package_blocks[1] = Empty

\* The field value as the claim C9 defines it: the rest of the line after
\* the prefix, less one leading space if there is one.
ClaimedFieldValue(block, prefix) ==
    LET rest == RawField(block, prefix)
    IN  IF rest # Empty /\ Head(rest) = " " THEN Tail(rest) ELSE rest

\* C9 as stated: a record matches only when its Package value, the rest of
\* the line with at most one leading space removed, equals the target.
C9_ExactValueMatch ==
    (pc = "report" /\ ~dependencies.isNone) =>
        /\ HasField(package_blocks[block_idx], PackagePrefix)
        /\ ClaimedFieldValue(package_blocks[block_idx], PackagePrefix)
              = config.package_name

\* The record's Package value with all surrounding whitespace removed is
\* the target, compared case-sensitively.
StrippedMatch(block, target) ==
    /\ HasField(block, PackagePrefix)
    /\ Strip(RawField(block, PackagePrefix)) = target

\* C9 amended: a record matches exactly when it has a Package line and the
\* rest of its last Package line, stripped of all leading and trailing
\* whitespace, equals the target case-sensitively; a record without a
\* Package line never matches.
C9_StrippedValueMatch ==
    pc = "report" =>
        /\ \A j \in 1..Len(package_blocks) :
              j < block_idx => ~StrippedMatch(package_blocks[j], config.package_name)
        /\ ~dependencies.isNone =>
              StrippedMatch(package_blocks[block_idx], config.package_name)
        /\ dependencies.isNone =>
              \A j \in 1..Len(package_blocks) :
                  ~StrippedMatch(package_blocks[j], config.package_name)

\* C9 witness: the record whose line is "Package:  X " matched the target X.
C9_Witness ==
    /\ Returned
    /\ config.package_name = X
    /\ dependencies = Some(<< <<"a", "|", "b">>, Empty, <<"c">> >>)

\* C10: get_packages_data is called only after a validation without errors,
\* a remote request then has the three fields and an http(s) location, and
\* a local or test request has a location that is not an http(s) URL.
C10_RequestInvariant ==
    (pc \notin {"load_config", "validate_config"}
       /\ (pc = "get_packages_data" \/ requests # << >>)) =>
        /\ errors = << >>
        /\ config.working_mode \in ValidModes
        /\ config.working_mode = "remote" =>
              /\ ~Missing(config, "distribution")
              /\ ~Missing(config, "component")
              /\ ~Missing(config, "architecture")
              /\ IsHttpUrl(config.repository_url)
        /\ config.working_mode \in {"local", "test"} =>
              ~IsHttpUrl(config.repository_url)

====
